---- MODULE Spec2Model ----
(***************************************************************************)
(* A model of the On-boarding Mentor chat front-end:                       *)
(*   - pages/rag_agents.py : Config, DocumentLoader, MermaidExtractor,     *)
(*     ChatManager (should_stop, _get_avatar, stream_response,             *)
(*     generate_response, show_chat_history);                              *)
(*   - streamlit_app.py    : main (session replay, chat, generate_response,*)
(*     show_chat_history).                                                 *)
(* A Python str is a sequence of one-character strings.  A chat message is *)
(* a dict, modelled as a function whose domain holds the keys present.     *)
(***************************************************************************)
EXTENDS Integers, Sequences, FiniteSets, TLC

\* ------------------------------------------------------------------ bounds
MaxPromptLen == 3
MaxHist == 4
MaxShow == 3
MaxStored == 4
MaxTurns == 2

\* ----------------------------------------------------------------- strings
\* The backquote cannot occur in a TLA+ string literal: it is a character of
\* its own, written Backtick.
Backtick == "BACKTICK"

Chars(t) == [i \in 1..Len(t) |-> SubSeq(t, i, i)]

Fence == <<Backtick, Backtick, Backtick>>

UpperCase == Chars("ABCDEFGHIJKLMNOPQRSTUVWXYZ")

LowerCase == Chars("abcdefghijklmnopqrstuvwxyz")

LowerMap == [c \in {UpperCase[i] : i \in 1..26} |->
               LowerCase[CHOOSE i \in 1..26 : UpperCase[i] = c]]

\* str.lower()
lower(s) == [i \in 1..Len(s) |-> IF s[i] \in DOMAIN LowerMap THEN LowerMap[s[i]] ELSE s[i]]

Whitespace == {" ", "\n", "\t", "\r"}

SetMin(S) == CHOOSE x \in S : \A y \in S : x <= y

SetMax(S) == CHOOSE x \in S : \A y \in S : y <= x

\* str.strip()
strip(s) ==
  LET solid == {i \in 1..Len(s) : s[i] \notin Whitespace}
  IN  IF solid = {} THEN <<>> ELSE SubSeq(s, SetMin(solid), SetMax(solid))

\* sub in s
Contains(sub, s) == \E i \in 0..(Len(s) - Len(sub)) : SubSeq(s, i + 1, i + Len(sub)) = sub

\* first index >= from at which sub occurs in s, 0 when there is none
FindFrom(sub, s, from) ==
  LET hits == {i \in from..(Len(s) - Len(sub) + 1) : SubSeq(s, i, i + Len(sub) - 1) = sub}
  IN  IF hits = {} THEN 0 ELSE SetMin(hits)

\* str.split(): the maximal runs of non-whitespace characters, in order
RECURSIVE split(_)
split(s) ==
  LET solid == {i \in 1..Len(s) : s[i] \notin Whitespace}
  IN  IF solid = {} THEN <<>>
      ELSE LET b == SetMin(solid)
               gaps == {i \in b..Len(s) : s[i] \in Whitespace}
               e == IF gaps = {} THEN Len(s) ELSE SetMin(gaps) - 1
           IN  <<SubSeq(s, b, e)>> \o split(SubSeq(s, e + 1, Len(s)))

\* sep.join(parts)
RECURSIVE join(_, _)
join(sep, parts) ==
  IF parts = <<>> THEN <<>>
  ELSE IF Len(parts) = 1 THEN parts[1]
  ELSE parts[1] \o sep \o join(sep, Tail(parts))

\* chat_history[-3:]
LastThree(h) == SubSeq(h, IF Len(h) > 3 THEN Len(h) - 2 ELSE 1, Len(h))

\* ------------------------------------------------------------------ Config
ORG_KEYWORDS ==
  << Chars("org"), Chars("organization"), Chars("structure"), Chars("team"),
     Chars("manager"), Chars("lead"), Chars("report"), Chars("department"),
     Chars("chart") >>

TERMINATION_PHRASES ==
  << Chars("I'm unable to provide"), Chars("I am sorry"),
     Chars("need more information"), Chars("please provide a question"),
     Chars("please clarify"), Chars("no relevant answer"), Chars("I apologize") >>

Range(f) == {f[i] : i \in DOMAIN f}

GRAPH_AGENT == "GraphRAG_Agent"

TEXT_AGENT == "TextRAG_Agent"

agent_roles == {TEXT_AGENT, GRAPH_AGENT}

\* --------------------------------------------------------- DocumentLoader
\* docs[category] is a dict filename -> content, kept as the sequence of its
\* items in insertion (os.listdir) order.
NoDocs == [personal |-> <<>>, org |-> <<>>]

ChartDocs ==
  [ personal |-> << [fname |-> Chars("notes.md"), content |-> Chars("Met Bob.")] >>,
    org |-> << [fname |-> Chars("chart.md"),
                content |-> Fence \o Chars("mermaid\ngraph TD; A-->B\n") \o Fence] >> ]

MixedDocs ==
  [ personal |-> << [fname |-> Chars("Personal.md"), content |-> Chars("todo")],
                    [fname |-> Chars("b.md"), content |-> Chars("")] >>,
    org |-> << [fname |-> Chars("a.md"),
                content |-> Chars("x") \o Fence \o Chars("mermaid\nA") \o Fence
                            \o Fence \o Chars("mermaid\nB") \o Fence],
               [fname |-> Chars("open.md"),
                content |-> Fence \o Chars("mermaid\nC")] >> ]

\* what load_documents can return
DocSets == {NoDocs, ChartDocs, MixedDocs}

\* -------------------------------------------------------- MermaidExtractor
MermaidOpen == Fence \o Chars("mermaid\n")

\* re.findall(r"```mermaid\n(.*?)```", text, re.DOTALL), scanning from `from`
RECURSIVE findall_from(_, _)
findall_from(text, from) ==
  LET o == FindFrom(MermaidOpen, text, from)
  IN  IF o = 0 THEN <<>>
      ELSE LET c == FindFrom(Fence, text, o + Len(MermaidOpen))
           IN  IF c = 0 THEN <<>>
               ELSE <<SubSeq(text, o + Len(MermaidOpen), c - 1)>>
                      \o findall_from(text, c + Len(Fence))

extract_mermaid_blocks(markdown_text) == findall_from(markdown_text, 1)

\* ------------------------------------------------------------ ChatManager
\* should_stop with any(...) in place of the outer all(...)
should_stop_any(chat_history) ==
  LET recent == LastThree(chat_history)
      last_few == {lower(strip(recent[i].content)) :
                     i \in {j \in 1..Len(recent) : recent[j].role \in agent_roles}}
  IN  \E resp \in last_few : \E g \in 1..Len(TERMINATION_PHRASES) :
         Contains(TERMINATION_PHRASES[g], resp)

\* should_stop that refuses an empty last_few
should_stop_nonempty(chat_history) ==
  LET recent == LastThree(chat_history)
      last_few == {lower(strip(recent[i].content)) :
                     i \in {j \in 1..Len(recent) : recent[j].role \in agent_roles}}
  IN  /\ last_few # {}
      /\ \A resp \in last_few : \E g \in 1..Len(TERMINATION_PHRASES) :
            Contains(TERMINATION_PHRASES[g], resp)

\* should_stop(chat_history)
should_stop(chat_history) ==
  LET recent == LastThree(chat_history)
      last_few == {lower(strip(recent[i].content)) :
                     i \in {j \in 1..Len(recent) : recent[j].role \in agent_roles}}
  IN  \A resp \in last_few : \E g \in 1..Len(TERMINATION_PHRASES) :
         Contains(TERMINATION_PHRASES[g], resp)

\* is_org_related without the lower()
is_org_related_cased(prompt) ==
  \E k \in 1..Len(ORG_KEYWORDS) : Contains(ORG_KEYWORDS[k], prompt)

\* is_org_related: any(keyword in prompt.lower() for keyword in ORG_KEYWORDS)
is_org_related(prompt) ==
  \E k \in 1..Len(ORG_KEYWORDS) : Contains(ORG_KEYWORDS[k], lower(prompt))

\* mermaid_blocks: the blocks of every org document, in document order
RECURSIVE mermaid_blocks(_)
mermaid_blocks(org_docs) ==
  IF org_docs = <<>> THEN <<>>
  ELSE extract_mermaid_blocks(org_docs[1].content) \o mermaid_blocks(Tail(org_docs))

OrgPreamble ==
  Chars("Based on the following organization charts,")
  \o Chars("answer the user's question.")
  \o Chars("Only use this information to determine reporting lines,")
  \o Chars("structure, or team relationships.")
  \o Chars("Do not include any Mermaid diagrams or")
  \o Chars("raw reference material in your response:\n\n")

\* the personal preamble, reworded
PersonalPreambleReworded ==
  Chars("Using the following personal notes,")
  \o Chars("answer the user's question.")
  \o Chars("Do not include any raw personal notes")
  \o Chars("or reference material in your response:\n\n")

PersonalPreamble ==
  Chars("Use the following personal notes to")
  \o Chars("answer the user's question.")
  \o Chars("Do not include any raw personal notes")
  \o Chars("or reference material in your response:\n\n")

org_final_prompt(prompt, docs) ==
  LET blocks == mermaid_blocks(docs.org)
      mermaid_diagrams ==
        join(Chars("\n\n"),
             [i \in 1..Len(blocks) |-> Fence \o Chars("mermaid\n") \o blocks[i]
                                        \o Chars("\n") \o Fence])
  IN  OrgPreamble \o mermaid_diagrams \o Chars("\n\nUser's question: ") \o prompt

personal_final_prompt(prompt, docs) ==
  LET personal_content ==
        join(Chars("\n\n"),
             [i \in 1..Len(docs.personal) |->
                Chars("# ") \o docs.personal[i].fname \o Chars("\n")
                \o docs.personal[i].content])
  IN  PersonalPreamble \o personal_content \o Chars("\n\nUser's question: ") \o prompt

GraphSentinel ==
  [role |-> GRAPH_AGENT,
   content |-> Chars("Ending the chat as ") \o Chars("no relevant answer can be provided.")]

TextSentinel ==
  [role |-> TEXT_AGENT,
   content |-> Chars("Ending the chat as no helpful") \o Chars("answer can be provided.")]

LeakMarkers ==
  << Fence \o Chars("mermaid"), Chars("# personal"), Chars("based on the following"),
     Chars("use the following") >>

\* msg.get("content", "")
get_content(msg) == IF "content" \in DOMAIN msg THEN msg.content ELSE <<>>

\* the condition without the lower()
keeps_cased(msg) ==
  ~ \E k \in 1..Len(LeakMarkers) : Contains(LeakMarkers[k], get_content(msg))

\* the condition of the "Clean history" comprehension
keeps(msg) ==
  ~ \E k \in 1..Len(LeakMarkers) : Contains(LeakMarkers[k], lower(get_content(msg)))

RECURSIVE clean_history(_)
clean_history(h) ==
  IF h = <<>> THEN <<>>
  ELSE (IF keeps(h[1]) THEN <<h[1]>> ELSE <<>>) \o clean_history(Tail(h))

\* The external conversation: user_proxy.initiate_chat(recipient, message, ...)
\* returns a history chosen by the agent framework.  `turns` is that choice;
\* the entry Opening stands for the proxy's opening message, whose content is
\* the message passed in.
Opening == [role |-> "user_proxy", content |-> <<"MESSAGE">>]

initiate_chat(recipient, message, turns) ==
  [i \in 1..Len(turns) |->
     IF turns[i] = Opening THEN [role |-> "user_proxy", content |-> message]
     ELSE turns[i]]

\* ------------------------------------------------------------------- state
VARIABLES
  session_state,     \* st.session_state: key -> stored list, for the keys present
  rendered,          \* what the current script run / call wrote to its chat container
  shown,             \* the argument of the latest ChatManager.show_chat_history
  error,             \* the exception the latest operation raised, or NoError
  asked,             \* the prompt of the latest ChatManager.generate_response
  calls,             \* the initiate_chat calls the latest generate_response made
  stopped,           \* what should_stop returned in the latest generate_response
  agent_history,     \* response.chat_history as the agent call returned it
  raw_history,       \* response.chat_history when the "Clean history" step starts
  filtered_history,  \* the list generate_response returned
  op                 \* the latest operation

vars == << session_state, rendered, shown, error, asked, calls, stopped,
           agent_history, raw_history, filtered_history, op >>

gen_vars == << asked, calls, stopped, agent_history, raw_history, filtered_history >>

NoError == "none"

AttributeError == "AttributeError"

\* a new browser session: st.session_state has no key
Init ==
  /\ session_state = [k \in {} |-> <<>>]
  /\ rendered = <<>>
  /\ shown = <<>>
  /\ error = NoError
  /\ asked = <<>>
  /\ calls = <<>>
  /\ stopped = FALSE
  /\ agent_history = <<>>
  /\ raw_history = <<>>
  /\ filtered_history = <<>>
  /\ op = "start"

\* st.session_state.<key> = value
set_key(state, key, value) ==
  [k \in DOMAIN state \cup {key} |-> IF k = key THEN value ELSE state[k]]

\* the number of messages the session stores, over both lists
stored_count(state) ==
  (IF "messages" \in DOMAIN state THEN Len(state["messages"]) ELSE 0)
  + (IF "rag_messages" \in DOMAIN state THEN Len(state["rag_messages"]) ELSE 0)

\* ------------------------------------------ ChatManager.generate_response
GenerateResponse(prompt, docs, turns) ==
  LET org == is_org_related(prompt)
      final_prompt == IF org THEN org_final_prompt(prompt, docs)
                      ELSE personal_final_prompt(prompt, docs)
      recipient == IF org THEN GRAPH_AGENT ELSE TEXT_AGENT
      history == initiate_chat(recipient, final_prompt, turns)
      stop == should_stop(history)
      extended == IF stop
                  THEN Append(history, IF org THEN GraphSentinel ELSE TextSentinel)
                  ELSE history
  IN  /\ asked' = prompt
      /\ calls' = << [recipient |-> recipient, message |-> final_prompt,
                      summary_method |-> "reflection_with_llm", max_turns |-> 1] >>
      /\ agent_history' = history
      /\ stopped' = stop
      /\ raw_history' = extended
      /\ filtered_history' = clean_history(extended)
      /\ error' = NoError
      /\ op' = "generate_response"
      /\ UNCHANGED << session_state, rendered, shown >>

\* ------------------------------------------- inputs of generate_response
PromptAlphabet == {"o", "r", "g", "O", "R", "G"}

ShortPrompts == UNION {[1..n -> PromptAlphabet] : n \in 0..MaxPromptLen}

ExamplePrompts ==
  { Chars("Who does the engineering manager report to?"),
    Chars("What did I note about today's meeting?"),
    Chars("TEAM Lead"), Chars("misleading"), Chars("my notes") }

Prompts == ShortPrompts \cup ExamplePrompts

\* messages the agent framework can put in a history
Replies ==
  { Opening,
    [role |-> GRAPH_AGENT, content |-> Chars("  Please Clarify \n")],
    [role |-> TEXT_AGENT, content |-> Chars("I am sorry")],
    [role |-> GRAPH_AGENT, content |-> Chars("Alice reports to Bob.")],
    [role |-> "user", content |-> Fence \o Chars("mermaid\ngraph TD\n") \o Fence] }

Histories == UNION {[1..n -> Replies] : n \in 0..MaxHist}

OneTurn == << Opening, [role |-> GRAPH_AGENT, content |-> Chars("Alice reports to Bob.")] >>

\* three apologies in a row, in two wordings and one of them shouted
Apologies ==
  { [i \in 1..3 |-> [role |-> TEXT_AGENT, content |-> c]] :
      c \in {Chars("I am sorry, please clarify"), Chars("I APOLOGIZE. NEED MORE INFORMATION.")} }

\* every prompt with every document collection and a one-turn conversation,
\* and two prompts (one per branch) with every history
GenInputs ==
  (Prompts \X DocSets \X {OneTurn})
  \cup ({Chars(""), Chars("Org chart")} \X {ChartDocs} \X (Histories \cup Apologies))

\* generate_response keeps nothing between calls: every state it can produce
\* is produced by the first call of a session
Next == /\ op = "start"
        /\ \E in \in GenInputs : GenerateResponse(in[1], in[2], in[3])

Spec == Init /\ [][Next]_vars

\* The avatars are emoji in the source; here they go by name.
BRAIN == "brain"

OFFICE_WORKER == "woman office worker"

\* the attributes class Config defines
ConfigAttrs == {"GEMINI1_API_KEY", "GEMINI2_API_KEY", "SEED", "ORG_KEYWORDS",
                "TERMINATION_PHRASES"}

\* Config.USER_IMAGE: the attribute's value, or the AttributeError its lookup raises
USER_IMAGE == IF "USER_IMAGE" \in ConfigAttrs THEN "user image" ELSE AttributeError

\* _get_avatar(role)
_get_avatar(role) ==
  IF role = "user_proxy" THEN BRAIN
  ELSE IF role = "user" THEN OFFICE_WORKER
  ELSE IF role \in agent_roles THEN OFFICE_WORKER
  ELSE USER_IMAGE

\* stream_response(text): the chunks the generator yields
stream_response(text) ==
  LET words == split(text) IN [i \in 1..Len(words) |-> words[i] \o <<" ">>]

\* everything a stream wrote
RECURSIVE concat(_)
concat(chunks) == IF chunks = <<>> THEN <<>> ELSE chunks[1] \o concat(Tail(chunks))

\* entry.get("role", "assistant")
get_role(entry) == IF "role" \in DOMAIN entry THEN entry.role ELSE "assistant"

\* render_entry streaming every agent reply, whatever its index
render_entry_stream_all(role, content, i, n) ==
  IF role = "user_proxy" THEN
    [index |-> i, name |-> "user", avatar |-> BRAIN, how |-> "write",
     content |-> content, text |-> Chars("*System prompted:* ") \o content]
  ELSE IF role = "user" THEN
    [index |-> i, name |-> "user", avatar |-> OFFICE_WORKER, how |-> "write",
     content |-> content, text |-> content]
  ELSE
    [index |-> i, name |-> "assistant",
     avatar |-> IF role \in agent_roles THEN OFFICE_WORKER ELSE USER_IMAGE,
     how |-> "write_stream", content |-> content,
     text |-> concat(stream_response(content))]

\* the write of one entry with non-empty content, i being its enumerate index
\* plus one and n = len(chat_history)
render_entry(role, content, i, n) ==
  IF role = "user_proxy" THEN
    [index |-> i, name |-> "user", avatar |-> BRAIN, how |-> "write",
     content |-> content, text |-> Chars("*System prompted:* ") \o content]
  ELSE IF role = "user" THEN
    [index |-> i, name |-> "user", avatar |-> OFFICE_WORKER, how |-> "write",
     content |-> content, text |-> content]
  ELSE IF role \in agent_roles THEN
    [index |-> i, name |-> "assistant", avatar |-> OFFICE_WORKER,
     how |-> IF i = n THEN "write_stream" ELSE "markdown",
     content |-> content,
     text |-> IF i = n THEN concat(stream_response(content)) ELSE content]
  ELSE
    [index |-> i, name |-> "assistant", avatar |-> USER_IMAGE,
     how |-> IF i = n THEN "write_stream" ELSE "markdown",
     content |-> content,
     text |-> IF i = n THEN concat(stream_response(content)) ELSE content]

\* the loop of ChatManager.show_chat_history from entry i on; acc holds
\* st.session_state.rag_messages, the writes so far and the exception raised
RECURSIVE show_from(_, _, _)
show_from(chat_history, i, acc) ==
  IF i > Len(chat_history) THEN acc
  ELSE
    LET entry == chat_history[i]
        role == get_role(entry)
        content == strip(get_content(entry))
    IN  IF content = <<>> THEN show_from(chat_history, i + 1, acc)
        ELSE
          LET avatar == _get_avatar(role)
          IN  IF avatar = AttributeError THEN [acc EXCEPT !.error = AttributeError]
              ELSE show_from(chat_history, i + 1,
                     [stored |-> Append(acc.stored,
                                   [role |-> role, content |-> content, avatar |-> avatar]),
                      out |-> Append(acc.out, render_entry(role, content, i, Len(chat_history))),
                      error |-> acc.error])

\* ------------------------------------------------- ChatManager.__init__
\* __init__ resetting the list on every construction
init_rag_messages_always(state) == set_key(state, "rag_messages", <<>>)

init_rag_messages(state) ==
  IF "rag_messages" \notin DOMAIN state THEN set_key(state, "rag_messages", <<>>) ELSE state

\* a script run of the RAG page constructs the manager
ChatManagerInit ==
  /\ session_state' = init_rag_messages(session_state)
  /\ rendered' = <<>>
  /\ shown' = <<>>
  /\ error' = NoError
  /\ op' = "ChatManager"
  /\ UNCHANGED gen_vars

\* ------------------------------------------ ChatManager.show_chat_history
ShowChatHistory(chat_history) ==
  /\ "rag_messages" \in DOMAIN session_state
  /\ LET done == show_from(chat_history, 1,
                   [stored |-> session_state["rag_messages"], out |-> <<>>, error |-> NoError])
     IN  /\ session_state' = set_key(session_state, "rag_messages", done.stored)
         /\ stored_count(session_state') <= MaxStored
         /\ rendered' = done.out
         /\ error' = done.error
  /\ shown' = chat_history
  /\ op' = "show_chat_history"
  /\ UNCHANGED gen_vars


\* ------------------------------------------------------ streamlit_app.py
None == "<None>"

user_image == "https://www.w3schools.com/howto/img_avatar.png"

DefaultAvatar == "default"

\* the None st.chat_input returns when nothing was submitted, where a str
\* (a sequence of characters) is expected
NoInput == <<None>>

\* f"{role}"
format_role(role) == IF role = None THEN "None" ELSE role

\* entry.get('role')
get_role_or_none(entry) == IF "role" \in DOMAIN entry THEN entry.role ELSE None

\* what the replay of one stored message writes: a sequence of zero or one write
replay_message(msg, i) ==
  IF msg.role = "user" THEN
    << [index |-> i, name |-> msg.role, avatar |-> user_image, how |-> "markdown",
        content |-> msg.content, text |-> msg.content] >>
  ELSE IF msg.role = "assistant" THEN
    << [index |-> i, name |-> msg.role, avatar |-> DefaultAvatar, how |-> "markdown",
        content |-> msg.content, text |-> msg.content] >>
  ELSE \* msg.get("image") is None: nothing is written and nothing is raised
    << >>

\* for msg in st.session_state.messages: ...
RECURSIVE replay_from(_, _)
replay_from(messages, i) ==
  IF i > Len(messages) THEN <<>>
  ELSE replay_message(messages[i], i) \o replay_from(messages, i + 1)

\* the home page's generate_response(prompt): the message it sends
prompt_template(prompt) == Chars("I would like to know'") \o prompt \o Chars("'")

\* the loop of the home page's show_chat_history from entry i on; acc holds
\* st.session_state.messages and the writes so far
RECURSIVE home_show_from(_, _, _)
home_show_from(chat_hsitory, i, acc) ==
  IF i > Len(chat_hsitory) THEN acc
  ELSE
    LET entry == chat_hsitory[i]
        role == get_role_or_none(entry)
        content == entry.content
        stored == Append(acc.stored, [role |-> format_role(role), content |-> content])
    IN  IF Len(strip(content)) # 0 THEN
          IF Contains(Chars("ALL DONE"), content) THEN [stored |-> stored, out |-> acc.out]
          ELSE home_show_from(chat_hsitory, i + 1,
                 [stored |-> stored,
                  out |-> Append(acc.out,
                     IF role # "assistant"
                     THEN [index |-> i, name |-> format_role(role), avatar |-> DefaultAvatar,
                           how |-> "write", content |-> content, text |-> content]
                     ELSE [index |-> i, name |-> "user", avatar |-> user_image,
                           how |-> "write", content |-> content, text |-> content])])
        ELSE home_show_from(chat_hsitory, i + 1, [stored |-> stored, out |-> acc.out])

\* if "messages" not in st.session_state: ... else: replay
init_messages(state) ==
  IF "messages" \notin DOMAIN state THEN set_key(state, "messages", <<>>) ELSE state

\* One script run of the home page.  prompt is what st.chat_input returned
\* (NoInput when nothing was submitted); turns is the history the agent
\* framework chooses for the conversation.
main(prompt, turns) ==
  LET replayed == IF "messages" \notin DOMAIN session_state THEN <<>>
                  ELSE replay_from(session_state["messages"], 1)
      state1 == init_messages(session_state)
  IN  IF prompt = NoInput \/ prompt = <<>> THEN  \* if prompt := ...: falsy
        /\ session_state' = state1
        /\ rendered' = replayed
        /\ UNCHANGED calls
      ELSE
        LET message == prompt_template(prompt)
            asked_write == [index |-> 0, name |-> "user", avatar |-> user_image,
                            how |-> "write", content |-> prompt, text |-> prompt]
            with_prompt == Append(state1["messages"], [role |-> "user", content |-> prompt])
            response == initiate_chat("assistant", message, turns)
            done == home_show_from(response, 1,
                      [stored |-> with_prompt, out |-> Append(replayed, asked_write)])
        IN  /\ session_state' = set_key(state1, "messages", done.stored)
            /\ stored_count(session_state') <= MaxStored
            /\ rendered' = done.out
            /\ calls' = << [recipient |-> "assistant", message |-> message] >>

HomeRun(prompt, turns) ==
  /\ main(prompt, turns)
  /\ shown' = <<>>
  /\ error' = NoError
  /\ op' = "main"
  /\ UNCHANGED << asked, stopped, agent_history, raw_history, filtered_history >>


\* ------------------------------------------------------- inputs of the UI
\* entries a history handed to ChatManager.show_chat_history can hold
ShowEntries ==
  { [role |-> "user_proxy", content |-> Chars("ask")],
    [role |-> "user", content |-> Chars("hi")],
    [role |-> TEXT_AGENT, content |-> Chars(" two  words ")],
    [role |-> GRAPH_AGENT, content |-> Chars("  ")],
    [role |-> "assistant", content |-> Chars("x")],
    [content |-> Chars("x")],
    [role |-> TEXT_AGENT] }

ShowHistories == UNION {[1..n -> ShowEntries] : n \in 0..MaxShow}

\* One script run of the RAG page in a new session: the manager is
\* constructed, then one history is shown.
NextRag ==
  \/ ChatManagerInit
  \/ /\ op = "ChatManager"
     /\ session_state["rag_messages"] = <<>>
     /\ \E h \in ShowHistories : ShowChatHistory(h)

SpecRag == Init /\ [][NextRag]_vars

\* A session that moves between the two pages.
HomePrompts == {Chars("hi")}

HomeReplies ==
  { [role |-> "assistant", content |-> Chars("")],
    [role |-> "assistant", content |-> Chars("Welcome.")],
    [role |-> "user", content |-> Chars("ok. ALL DONE")],
    [content |-> Chars(" ")] }

HomeTurns == UNION {[1..n -> HomeReplies] : n \in 0..MaxTurns}

SessionShown ==
  { <<>>,
    << [role |-> "user_proxy", content |-> Chars("ask")] >>,
    << [role |-> TEXT_AGENT, content |-> Chars(" two  words ")],
       [role |-> GRAPH_AGENT, content |-> Chars("done")] >>,
    << [role |-> "user", content |-> Chars("hi")], [role |-> "assistant", content |-> Chars("x")] >> }

NextSession ==
  \/ ChatManagerInit
  \/ \E h \in SessionShown : ShowChatHistory(h)
  \/ HomeRun(NoInput, <<>>)
  \/ \E p \in HomePrompts, t \in HomeTurns : HomeRun(p, t)

SpecSession == Init /\ [][NextSession]_vars


\* ================================================================= claims
Generated == op = "generate_response"

\* sub occurs in s at offset i, ignoring case
OccursFolded(sub, s, i) ==
  /\ i + Len(sub) <= Len(s)
  /\ \A j \in 1..Len(sub) : lower(<<s[i + j]>>) = <<sub[j]>>

HasOrgKeyword(s) ==
  \E kw \in Range(ORG_KEYWORDS) : \E i \in 0..Len(s) : OccursFolded(kw, s, i)

\* C1: every generate_response makes exactly one initiate_chat call, with
\* max_turns = 1; the recipient is the graph agent iff the prompt contains an
\* organization keyword ignoring case, the text agent otherwise; the empty
\* prompt goes to the text agent.
C1_OneCallRoutedByKeyword ==
  Generated =>
    /\ Len(calls) = 1
    /\ calls[1].max_turns = 1
    /\ calls[1].recipient \in {GRAPH_AGENT, TEXT_AGENT}
    /\ (calls[1].recipient = GRAPH_AGENT) <=> HasOrgKeyword(asked)
    /\ (asked = <<>>) => (calls[1].recipient = TEXT_AGENT)

\* a prompt whose keyword is in upper case went to the graph agent
C1_Witness ==
  /\ Generated
  /\ asked = Chars("ORG")
  /\ calls[1].recipient = GRAPH_AGENT

HasLeakMarker(c) == \E m \in Range(LeakMarkers) : Contains(m, lower(c))

\* C2: the returned history is the order-preserving subsequence of the
\* (possibly sentinel-extended) raw history made of exactly the messages whose
\* lower-cased content contains no leak marker.
C2_ReturnedIsCleanSubsequence ==
  Generated =>
    LET clean == {i \in 1..Len(raw_history) : ~ HasLeakMarker(raw_history[i].content)}
        rank(i) == Cardinality({j \in clean : j <= i})
    IN  /\ Len(filtered_history) = Cardinality(clean)
        /\ \A i \in clean : filtered_history[rank(i)] = raw_history[i]
        /\ \A k \in 1..Len(filtered_history) : ~ HasLeakMarker(filtered_history[k].content)

\* a sentinel-extended history lost the echoed prompt, whose marker has a
\* capital letter, and a fenced diagram, and kept the others in order
C2_Witness ==
  /\ Generated
  /\ stopped
  /\ Len(raw_history) = 5
  /\ raw_history[1].content = calls[1].message
  /\ raw_history[2].content = Chars("  Please Clarify \n")
  /\ Contains(Fence, raw_history[3].content)
  /\ raw_history[4].content = Chars("  Please Clarify \n")
  /\ filtered_history = << raw_history[2], raw_history[4], raw_history[5] >>

RecentAgentReplies ==
  LET recent == LastThree(agent_history)
  IN  {recent[i].content : i \in {j \in 1..Len(recent) : recent[j].role \in agent_roles}}

IsSentinelOf(msg, agent) ==
  /\ msg.role = agent
  /\ Contains(Chars("Ending the chat as no"), msg.content)
  /\ Contains(Chars("answer can be provided."), msg.content)

SentinelAppended ==
  /\ Len(raw_history) = Len(agent_history) + 1
  /\ SubSeq(raw_history, 1, Len(agent_history)) = agent_history
  /\ IsSentinelOf(raw_history[Len(raw_history)], calls[1].recipient)

\* C3: should_stop is true only if every agent-role message among the last
\* three entries contains, trimmed and case-folded, a generic-failure phrase;
\* when it is true exactly one sentinel whose role is the branch's agent is
\* appended at the end, and when it is false nothing is appended.
C3_StopOnlyIfAllGeneric ==
  Generated =>
    /\ stopped => \A c \in RecentAgentReplies :
                    \E p \in Range(TERMINATION_PHRASES) : Contains(p, lower(strip(c)))
    /\ stopped => SentinelAppended
    /\ ~ stopped => raw_history = agent_history

\* the stop fired on a four-entry history whose first entry is a helpful agent
\* reply outside the window and whose window holds a non-agent message
C3_Witness ==
  /\ Generated
  /\ stopped
  /\ Len(agent_history) = 4
  /\ agent_history[1] = [role |-> GRAPH_AGENT, content |-> Chars("Alice reports to Bob.")]
  /\ agent_history[2].role = "user"
  /\ agent_history[3].content = Chars("  Please Clarify \n")
  /\ agent_history[4].content = Chars("  Please Clarify \n")
  /\ raw_history[5].role = GRAPH_AGENT

\* C4: for each phrase p of TERMINATION_PHRASES, a history whose last three
\* entries are agent-role messages that each contain p makes should_stop true
\* and the sentinel is appended.
C4_EveryPhraseStops ==
  Generated =>
    \A p \in Range(TERMINATION_PHRASES) :
      ( /\ Len(agent_history) >= 3
        /\ \A i \in (Len(agent_history) - 2)..Len(agent_history) :
             /\ agent_history[i].role \in agent_roles
             /\ Contains(p, agent_history[i].content) )
      => (stopped /\ SentinelAppended)

\* C9: the assembled prompt holds, case-folded, the preamble marker of its
\* branch, and no message whose content is the assembled prompt is returned.
C9_PromptNeverReturned ==
  Generated =>
    LET final_prompt == calls[1].message
        marker == IF calls[1].recipient = GRAPH_AGENT
                  THEN Chars("based on the following")
                  ELSE Chars("use the following")
    IN  /\ Contains(marker, lower(final_prompt))
        /\ \A k \in 1..Len(filtered_history) : filtered_history[k].content # final_prompt

\* a personal-branch prompt with no document, echoed by the framework, was
\* dropped while the reply next to it was returned
C9_Witness ==
  /\ Generated
  /\ calls[1].recipient = TEXT_AGENT
  /\ ~ Contains(Chars("# "), calls[1].message)
  /\ Len(raw_history) = 2
  /\ raw_history[1].content = calls[1].message
  /\ filtered_history = << raw_history[2] >>

\* C10: when none of the last three entries has an agent role (the empty
\* history included) should_stop is true and the sentinel is appended.
C10_NoAgentReplyStops ==
  (Generated /\ RecentAgentReplies = {}) => (stopped /\ SentinelAppended)

\* a non-empty history without agent replies in its window got the sentinel
C10_Witness ==
  /\ Generated
  /\ Len(agent_history) = 4
  /\ agent_history[1].role = TEXT_AGENT
  /\ \A i \in 2..4 : agent_history[i].role \notin agent_roles
  /\ raw_history[5].role = TEXT_AGENT

\* C5: no chat message whose content is empty after trimming is ever written
\* to a chat container, by either page, replay included.
C5_NoEmptyMessageRendered ==
  \A k \in 1..Len(rendered) : strip(rendered[k].content) # <<>>

Shown == op = "show_chat_history"

\* C6: show_chat_history renders every entry with non-empty content without
\* failing: user_proxy, user and the two agents get their fixed avatars, any
\* other role (a missing one included) gets the default avatar.
C6_EveryRoleRendered ==
  Shown =>
    /\ error = NoError
    /\ \A i \in 1..Len(shown) :
         strip(get_content(shown[i])) # <<>> =>
           \E k \in 1..Len(rendered) :
             /\ rendered[k].index = i
             /\ rendered[k].avatar =
                  ( IF get_role(shown[i]) = "user_proxy" THEN BRAIN
                    ELSE IF get_role(shown[i]) \in {"user", TEXT_AGENT, GRAPH_AGENT}
                         THEN OFFICE_WORKER
                    ELSE "user image" )

IsPrefix(s, t) == Len(s) <= Len(t) /\ SubSeq(t, 1, Len(s)) = s

\* C7: the stored lists messages and rag_messages are append-only: in every
\* step a list that exists still exists afterwards and has its old value as a
\* prefix.
C7_AppendOnly ==
  [][ \A k \in {"messages", "rag_messages"} :
        k \in DOMAIN session_state =>
          /\ k \in DOMAIN session_state'
          /\ IsPrefix(session_state[k], session_state'[k]) ]_vars

\* the manager was constructed again while both lists held messages
C7_Witness ==
  /\ op = "ChatManager"
  /\ DOMAIN session_state = {"messages", "rag_messages"}
  /\ Len(session_state["rag_messages"]) >= 2
  /\ Len(session_state["messages"]) >= 2

\* C8: one call of show_chat_history streams at most one message, and only
\* the entry at the last index; entries before it are written plainly, and so
\* are user_proxy and user messages even when last.
C8_OnlyLastStreamed ==
  Shown =>
    LET streams == {k \in 1..Len(rendered) : rendered[k].how = "write_stream"}
    IN  /\ Cardinality(streams) <= 1
        /\ \A k \in streams : rendered[k].index = Len(shown)
        /\ \A k \in 1..Len(rendered) :
             /\ rendered[k].index < Len(shown) => rendered[k].how \in {"write", "markdown"}
             /\ get_role(shown[rendered[k].index]) \in {"user_proxy", "user"}
                  => rendered[k].how = "write"

\* three entries were shown: an agent reply written plainly, a user message,
\* and a last agent reply streamed word by word
C8_Witness ==
  /\ Shown
  /\ Len(shown) = 3
  /\ Len(rendered) = 3
  /\ get_role(shown[1]) = TEXT_AGENT /\ rendered[1].how = "markdown"
  /\ rendered[2].how = "write"
  /\ rendered[3].how = "write_stream"
  /\ rendered[3].text = Chars("two words ")

====
